---- MODULE Spec2Model ----
(***************************************************************************)
(* Model of app.py: the guarded percentage calculator                      *)
(* calculate_percentage, its driver process_data, the module's entry-point *)
(* guard, and the HTTP demo service that test_app.py exercises.            *)
(*                                                                         *)
(* Numbers are modelled with Python's own arithmetic: an int is unbounded, *)
(* int / int is the correctly rounded IEEE-754 binary64 quotient (and      *)
(* raises when the divisor is 0 or the quotient is beyond the largest      *)
(* float), float * int rounds again, and str()/format() produce decimal    *)
(* text.                                                                   *)
(***************************************************************************)
EXTENDS Integers, Sequences, FiniteSets, TLC

\* ------------------------------------------------------------------------
\* Bounds of the model
\* ------------------------------------------------------------------------
\* Largest magnitude of the small int operands tried as part.
MaxPart == 12
\* Largest magnitude of the small int operands tried as total.
MaxTotal == 7
\* Largest operands of the calls made one after another.
MaxSeqPart == 1
MaxSeqTotal == 1
\* Most calls made one after another.
MaxCalls == 3
\* Most times the module body is run.
MaxLoads == 2
\* Most invocations of process_data.
MaxRuns == 2
\* Most requests sent to the web application.
MaxRequests == 4

\* ------------------------------------------------------------------------
\* IEEE-754 binary64, the format of a Python float
\* ------------------------------------------------------------------------
\* Significand bits of a float (sys.float_info.mant_dig).
Prec == 53
\* Exponent of the leading bit of the largest finite float (max_exp - 1).
EMax == 1023
\* Exponent of the least significant bit of a subnormal float.
EMinSub == -1074
\* Decimal digits of the largest finite float's integer part, 1.797...e308.
MaxDecDigits == 309
\* Below 10^-324 a quotient is less than half the least subnormal float.
MinDecExp == -324

Max(a, b) == IF a >= b THEN a ELSE b
Min(a, b) == IF a <= b THEN a ELSE b
Abs(n) == IF n < 0 THEN -n ELSE n

\* The element of a one-element set.  Operators below bind intermediate
\* results as {e : x \in {v}} so that each is evaluated exactly once.
The(S) == CHOOSE x \in S : TRUE

\* ------------------------------------------------------------------------
\* Unbounded naturals (Python's int magnitudes, and the significands of
\* floats) as sequences of limbs in base 2^LimbBits, least significant
\* limb first, the top limb nonzero; zero is the empty sequence.
\* ------------------------------------------------------------------------
LimbBits == 15
Base == 2^LimbBits

\* Number of bits of a natural below 2^31.
BitLen(n) == Cardinality({i \in 0..30 : 2^i <= n})

Limb(L, j) == IF j >= 1 /\ j <= Len(L) THEN L[j] ELSE 0

\* Drop zero limbs above the top nonzero one.
BigNorm(L0) ==
    The({ SubSeq(L, 1, Cardinality({i \in 1..Len(L) :
                                      \E j \in i..Len(L) : L[j] # 0}))
          : L \in {L0} })

\* A natural below 2^31 as limbs.
BigOfNat(n) == BigNorm(<<n % Base, (n \div Base) % Base, n \div (Base * Base)>>)

BigBitLen(L) ==
    IF L = <<>> THEN 0 ELSE LimbBits * (Len(L) - 1) + BitLen(L[Len(L)])

\* Bit i of L, the least significant bit being bit 1.
BigBit(L, i) ==
    (Limb(L, ((i - 1) \div LimbBits) + 1) \div 2^((i - 1) % LimbBits)) % 2

\* Some bit among the d lowest of L is 1.
BigLowNonzero(L, d) == \E i \in 1..d : BigBit(L, i) = 1

\* floor(L / 2^d)
BigShr(L0, d) ==
    The({ BigNorm([i \in 1..Max(0, Len(L) - (d \div LimbBits)) |->
                     (Limb(L, i + (d \div LimbBits)) \div 2^(d % LimbBits))
                     + (Limb(L, i + (d \div LimbBits) + 1) % 2^(d % LimbBits))
                       * 2^(LimbBits - (d % LimbBits))])
          : L \in {L0} })

\* L * 2^d
BigShl(L0, d) ==
    The({ BigNorm([i \in 1..(Len(L) + (d \div LimbBits) + 1) |->
                     (Limb(L, i - (d \div LimbBits)) % 2^(LimbBits - (d % LimbBits)))
                       * 2^(d % LimbBits)
                     + (Limb(L, i - (d \div LimbBits) - 1)
                          \div 2^(LimbBits - (d % LimbBits)))])
          : L \in {L0} })

\* L * k + carry, for naturals k <= Base and carry < 2^30
RECURSIVE BigMulAdd(_, _, _)
BigMulAdd(L, k, carry) ==
    IF L = <<>>
    THEN BigOfNat(carry)
    ELSE The({ <<v % Base>> \o BigMulAdd(t, k, v \div Base)
               : v \in {L[1] * k + carry}, t \in {Tail(L)} })

BigMulSmall(L, k) == BigNorm(BigMulAdd(L, k, 0))

BigInc(L) == BigMulAdd(L, 1, 1)

RECURSIVE BigAddC(_, _, _)
BigAddC(a, b, carry) ==
    IF a = <<>> THEN BigMulAdd(b, 1, carry)
    ELSE IF b = <<>> THEN BigMulAdd(a, 1, carry)
    ELSE The({ <<v % Base>> \o BigAddC(ta, tb, v \div Base)
               : v \in {a[1] + b[1] + carry}, ta \in {Tail(a)}, tb \in {Tail(b)} })

BigAdd(a0, b0) == The({ BigAddC(a, b, 0) : a \in {a0}, b \in {b0} })

\* a <= b, for normalised a and b
BigLeq(a0, b0) ==
    The({ IF Len(a) # Len(b) THEN Len(a) < Len(b)
          ELSE \A i \in 1..Len(a) :
                  (a[i] > b[i]) => \E j \in (i + 1)..Len(a) : a[j] < b[j]
          : a \in {a0}, b \in {b0} })

\* <<quotient limbs, remainder>> of the limbs of L from position i up,
\* divided by a natural 0 < k < 2^16 (long division, top limb first).
RECURSIVE BigDivFrom(_, _, _)
BigDivFrom(L, k, i) ==
    IF i > Len(L) THEN <<<<>>, 0>>
    ELSE The({ The({ <<<<v \div k>> \o hi[1], v % k>>
                     : v \in {hi[2] * Base + L[i]} })
               : hi \in {BigDivFrom(L, k, i + 1)} })

\* <<quotient, remainder>> of L by a natural 0 < k < 2^16.
BigDivSmall(L0, k) ==
    The({ The({ <<BigNorm(qr[1]), qr[2]>> : qr \in {BigDivFrom(L, k, 1)} })
          : L \in {L0} })

\* ------------------------------------------------------------------------
\* Decimal text: a sequence of one-character strings.
\* ------------------------------------------------------------------------
DigitChar(d) == CASE d = 0 -> "0" [] d = 1 -> "1" [] d = 2 -> "2" [] d = 3 -> "3"
                  [] d = 4 -> "4" [] d = 5 -> "5" [] d = 6 -> "6" [] d = 7 -> "7"
                  [] d = 8 -> "8" [] d = 9 -> "9"

\* Decimal digits of an unbounded natural; "0" for zero.
RECURSIVE BigDigits(_)
BigDigits(L) ==
    The({ IF qr[1] = <<>> THEN <<DigitChar(qr[2])>>
          ELSE BigDigits(qr[1]) \o <<DigitChar(qr[2])>>
          : qr \in {BigDivSmall(L, 10)} })

NatDigits(n) == BigDigits(BigOfNat(n))

\* ------------------------------------------------------------------------
\* Python int operands: the value m * 10^e (e = 0 for the small ints, a
\* large e for ints beyond the range of a float).
\* ------------------------------------------------------------------------
\* Decimal exponent of the large int operands tried, 10**400 and the like.
HugeExp10 == 400

\* Decimal exponent of the int operands tried that are too long to print,
\* 10**4300.
VastExp10 == 4300

PyInt(n) == [m |-> n, e |-> 0]
PyHuge(n) == [m |-> n, e |-> HugeExp10]
PyVast(n) == [m |-> n, e |-> VastExp10]

RECURSIVE Pow10(_)
Pow10(n) == IF n = 0 THEN 1 ELSE 10 * Pow10(n - 1)

\* int == 0
IntIsZero(x) == x.m = 0

\* Number of decimal digits of |x|, x # 0.
IntDecDigits(x) == Len(NatDigits(Abs(x.m))) + x.e

\* sys.int_info.default_max_str_digits: str(x) of an int of more decimal
\* digits raises ValueError.
IntMaxStrDigits == 4300

\* str(x) raises instead of returning text.
IntStrRaises(x) == ~IntIsZero(x) /\ IntDecDigits(x) > IntMaxStrDigits

\* str(x) of an int, as the f-string interpolation {part} produces it
\* (where it does not raise).
IntStr(x) ==
    IF x.m = 0 THEN <<"0">>
    ELSE (IF x.m < 0 THEN <<"-">> ELSE <<>>)
         \o NatDigits(Abs(x.m)) \o [i \in 1..x.e |-> "0"]

\* ------------------------------------------------------------------------
\* Python floats: (-1)^neg * mant * 2^exp with mant an unbounded natural of
\* at most Prec bits (exactly Prec bits unless subnormal or zero), or an infinity.
\* ------------------------------------------------------------------------
FloatZero(neg) == [kind |-> "finite", neg |-> neg, mant |-> <<>>, exp |-> 0]
FloatInf(neg) == [kind |-> "inf", neg |-> neg, mant |-> <<>>, exp |-> 0]

FloatIsZero(x) == x.kind = "finite" /\ x.mant = <<>>

\* The float (-1)^neg * M * 2^q for a significand M already rounded to at
\* most Prec + 1 bits (Prec + 1 only as a power of two, after a carry).
FloatPack(neg, M, q) ==
    IF M = <<>> THEN FloatZero(neg)
    ELSE IF q + BigBitLen(M) - 1 > EMax THEN FloatInf(neg)
    ELSE IF BigBitLen(M) > Prec
         THEN [kind |-> "finite", neg |-> neg, mant |-> BigShr(M, 1), exp |-> q + 1]
    ELSE [kind |-> "finite", neg |-> neg, mant |-> M, exp |-> q]

\* Round (-1)^neg * (B + f) * 2^e to the nearest float, ties to even, where
\* B is an unbounded natural and 0 <= f < 1 is nonzero iff sticky.  The
\* caller supplies at least Prec + 2 bits in B whenever sticky holds.
RoundNearestEven(neg, B0, e, sticky) ==
    The({ IF B = <<>> THEN FloatZero(neg)
          ELSE
          The({ The({ The({ FloatPack(neg, M, q)
                            : M \in {IF q > e /\ BigBit(B, q - e) = 1
                                        /\ (sticky \/ BigLowNonzero(B, q - e - 1)
                                            \/ BigBit(kept, 1) = 1)
                                     THEN BigInc(kept) ELSE kept} })
                      : kept \in {IF q <= e THEN BigShl(B, e - q)
                                  ELSE BigShr(B, q - e)} })
                : q \in {Max(e + BigBitLen(B) - Prec, EMinSub)} })
          : B \in {B0} })

\* float(n) for a small int n (exact).
FloatOfInt(n) == RoundNearestEven(n < 0, BigOfNat(Abs(n)), 0, FALSE)

\* The correctly rounded quotient a / b of two positive naturals.
RoundedQuotient(neg, a, b) ==
    The({ The({ RoundNearestEven(neg, qr[1], -k, qr[2] # 0)
                : qr \in {BigDivSmall(BigShl(BigOfNat(a), k), b)} })
          : k \in {Prec + 2 + BitLen(b)} })

\* The result of an expression: a value, or a raised exception.
Returns(v) == [ok |-> TRUE, val |-> v, exc |-> "none"]
Raises(x) == [ok |-> FALSE, val |-> FloatZero(FALSE), exc |-> x]

\* a // b in place of a / b: the quotient rounded down to a whole number.
FloorDivide(a, b) ==
    IF IntIsZero(b) THEN Raises("ZeroDivisionError")
    ELSE IF a.e # 0 \/ b.e # 0 THEN Raises("OverflowError")
    ELSE Returns(FloatOfInt(
           IF (a.m < 0) = (b.m < 0) THEN Abs(a.m) \div Abs(b.m)
           ELSE -((Abs(a.m) + Abs(b.m) - 1) \div Abs(b.m))))

\* a / b on two ints (true division): ZeroDivisionError when b is 0,
\* OverflowError when the rounded quotient is beyond the largest float, a
\* signed zero when it underflows.
TrueDivide(a, b) ==
    IF IntIsZero(b) THEN Raises("ZeroDivisionError")
    ELSE
    LET neg == (a.m < 0) # (b.m < 0)
    IN  IF IntIsZero(a) THEN Returns(FloatZero(neg))
        ELSE
        The({ IF d - 1 >= MaxDecDigits THEN Raises("OverflowError")
              ELSE IF d + 1 <= MinDecExp THEN Returns(FloatZero(neg))
              ELSE The({ IF r.kind = "inf" THEN Raises("OverflowError")
                         ELSE Returns(r)
                         : r \in {RoundedQuotient(neg,
                                     Abs(a.m) * Pow10(a.e - Min(a.e, b.e)),
                                     Abs(b.m) * Pow10(b.e - Min(a.e, b.e)))} })
              : d \in {IntDecDigits(a) - IntDecDigits(b)} })

\* x * k for a float x and a small int k (k converts to a float exactly);
\* a product beyond the largest float is an infinity, never an exception.
FloatMulInt(x0, k) ==
    The({ IF x.kind = "inf" THEN FloatInf(x.neg # (k < 0))
          ELSE RoundNearestEven(x.neg # (k < 0), BigMulSmall(x.mant, Abs(k)),
                                x.exp, FALSE)
          : x \in {x0} })

\* format(x, ".2f") of a float: the exact binary value rounded half-even to
\* two decimals, at least one digit before the point, "-" for a set sign.
FormatFixed2(x0) ==
    The({ IF x.kind = "inf"
          THEN (IF x.neg THEN <<"-">> ELSE <<>>) \o <<"i", "n", "f">>
          ELSE
          The({ The({ The({ (IF x.neg THEN <<"-">> ELSE <<>>)
                            \o SubSeq(ds, 1, Len(ds) - 2) \o <<".">>
                            \o SubSeq(ds, Len(ds) - 1, Len(ds))
                            : ds \in {IF Len(d) >= 3 THEN d
                                      ELSE [i \in 1..(3 - Len(d)) |-> "0"] \o d} })
                      : d \in {BigDigits(
                                 IF x.exp >= 0 THEN BigShl(X, x.exp)
                                 ELSE IF BigBit(X, -x.exp) = 1
                                         /\ (BigLowNonzero(X, -x.exp - 1)
                                             \/ BigBit(BigShr(X, -x.exp), 1) = 1)
                                 THEN BigInc(BigShr(X, -x.exp))
                                 ELSE BigShr(X, -x.exp))} })
                : X \in {BigMulSmall(x.mant, 100)} })
          : x \in {x0} })

\* ------------------------------------------------------------------------
\* Log records.  A message is a sequence of text fragments: the f-string's
\* literal pieces whole, each interpolated value character by character.
\* ------------------------------------------------------------------------
LevelNo(level) == CASE level = "INFO" -> 20 [] level = "WARNING" -> 30
                    [] level = "ERROR" -> 40

\* A logger that drops a message it has emitted before.
EmitOnce(lg, threshold, level, func, msg) ==
    IF LevelNo(level) >= LevelNo(threshold)
       /\ \A i \in 1..Len(lg) : lg[i].msg # msg
    THEN Append(lg, [level |-> level, func |-> func, msg |-> msg])
    ELSE lg

\* logging.<level>(msg) from function func: the record reaches the log only
\* when its level is at least the root logger's.
Emit(lg, threshold, level, func, msg) ==
    IF LevelNo(level) >= LevelNo(threshold)
    THEN Append(lg, [level |-> level, func |-> func, msg |-> msg])
    ELSE lg

\* basicConfig left at the root logger's default level.
BasicConfigWarning == "WARNING"

\* The level logging.basicConfig(level=logging.INFO, ...) sets.
BasicConfigLevel == "INFO"

\* The message with the f prefix forgotten: no value is interpolated.
WarningMsgLiteral(p) ==
    <<"Attempted to calculate percentage with total=0. Returning 0%. Part: {part}">>

WarningMsg(p) ==
    <<"Attempted to calculate percentage with total=0. Returning 0%. Part: ">>
    \o IntStr(p)

\* str(e) of the exceptions that occur.
ExcText(x) ==
    CASE x = "ZeroDivisionError" -> "division by zero"
      [] x = "OverflowError" -> "integer division result too large for a float"
      [] x = "TypeError" -> "unsupported format string passed to NoneType.__format__"
      [] x = "ValueError" ->
            "Exceeds the limit (4300 digits) for integer string conversion"
      [] x = "RuntimeError" -> "injected fault"
      [] OTHER -> ""

\* ------------------------------------------------------------------------
\* Operands tried
\* ------------------------------------------------------------------------
successful_attempts_problematic == 50
total_attempts_problematic == 0
successful_attempts_valid == 75
total_attempts_valid == 100

Parts ==
    {PyInt(n) : n \in -MaxPart..MaxPart}
    \cup {PyInt(successful_attempts_problematic), PyInt(successful_attempts_valid)}
    \cup {PyHuge(1), PyHuge(-1), PyVast(1), PyVast(-1)}

Totals ==
    {PyInt(n) : n \in -MaxTotal..MaxTotal}
    \cup {PyInt(total_attempts_problematic), PyInt(total_attempts_valid)}
    \cup {PyHuge(1)}

SeqParts == {PyInt(n) : n \in 0..MaxSeqPart} \cup {PyHuge(1), PyVast(1)}
SeqTotals == {PyInt(n) : n \in -MaxSeqTotal..MaxSeqTotal}

\* None, what a patched calculator may return instead of a number.
NoneValue == [kind |-> "None", neg |-> FALSE, mant |-> <<>>, exp |-> 0]

\* ------------------------------------------------------------------------
\* State
\* ------------------------------------------------------------------------
VARIABLES
    program,          \* which app.py runs: "script" or "web"
    modname,          \* __name__ of the last load of the module, or "none"
    loads,            \* number of times the module body has run
    log_level,        \* the root logger's level
    calc_impl,        \* what the global name calculate_percentage is bound to
    log,              \* the records emitted so far
    cpc,              \* position inside calculate_percentage
    caller,           \* who called it: "direct", "A", "B" or "none"
    part, total,      \* its arguments
    percentage,       \* its local
    result,           \* how the last call ended: a value or an exception
    mark,             \* Len(log) when the last call was entered
    zero_calls,       \* calls of calculate_percentage entered with total == 0
    calls,            \* calls of calculate_percentage entered
    ref,              \* an earlier direct call, remembered: <<>> or <<call>>
    ppc,              \* position inside process_data
    invoked_by,       \* who invoked process_data: "main", "caller" or "none"
    run_mark,         \* Len(log) when process_data was last entered
    runs,             \* invocations of process_data
    finished,         \* returns of process_data
    completion_rate,  \* completion_rate_problematic / completion_rate_valid
    exc,              \* the exception a handler of process_data caught
    testing,          \* web: exceptions propagate to the client's caller
    responses         \* web: the outcome of each request so far

modVars == <<modname, loads, log_level, calc_impl>>
calcVars == <<cpc, caller, part, total, percentage, result, mark, zero_calls,
             calls>>
pdVars == <<ppc, invoked_by, run_mark, runs, finished, completion_rate, exc>>
webVars == <<testing, responses>>
vars == <<program, modVars, log, calcVars, ref, pdVars, webVars>>

NoResult == Raises("none")

\* ------------------------------------------------------------------------
\* calculate_percentage(part, total), statement by statement
\* ------------------------------------------------------------------------
\* The guard left out: no total counts as zero.
TotalNeverZero(t) == FALSE

\* total == 0
TotalIsZero(t) == IntIsZero(t)

\* (part / total) * 100
PercentageExpr(p, t) ==
    The({ IF d.ok THEN Returns(FloatMulInt(d.val, 100)) ELSE d
          : d \in {TrueDivide(p, t)} })

\* Entering the function with arguments p and t on behalf of who.
EnterCalc(p, t, who) ==
    /\ part' = p
    /\ total' = t
    /\ caller' = who
    /\ percentage' = NoneValue
    /\ result' = NoResult
    /\ mark' = Len(log)
    /\ zero_calls' = IF calc_impl = "real" /\ IntIsZero(t)
                     THEN zero_calls + 1 ELSE zero_calls
    /\ calls' = IF calc_impl = "real" THEN calls + 1 ELSE calls
    /\ cpc' = IF calc_impl = "real" THEN "guard" ELSE "stub"

\* if total == 0:
CalcGuard ==
    /\ cpc = "guard"
    /\ cpc' = IF TotalIsZero(total) THEN "warn" ELSE "divide"
    /\ UNCHANGED <<program, modVars, log, caller, part, total, percentage,
                   result, mark, zero_calls, calls, ref, pdVars, webVars>>

\* logging.warning(f"Attempted ... Part: {part}"): the message is built
\* first, and building it raises when str(part) does.
CalcWarn ==
    /\ cpc = "warn"
    /\ IF IntStrRaises(part)
       THEN /\ result' = Raises("ValueError")
            /\ cpc' = "raised"
            /\ UNCHANGED log
       ELSE /\ log' = Emit(log, log_level, "WARNING", "calculate_percentage",
                           WarningMsg(part))
            /\ cpc' = "return_zero"
            /\ UNCHANGED result
    /\ UNCHANGED <<program, modVars, caller, part, total, percentage,
                   mark, zero_calls, calls, ref, pdVars, webVars>>

\* return 0.0
CalcReturnZero ==
    /\ cpc = "return_zero"
    /\ result' = Returns(FloatZero(FALSE))
    /\ cpc' = "done"
    /\ UNCHANGED <<program, modVars, log, caller, part, total, percentage,
                   mark, zero_calls, calls, ref, pdVars, webVars>>

\* percentage = (part / total) * 100
CalcDivide ==
    /\ cpc = "divide"
    /\ \E r \in {PercentageExpr(part, total)} :
          IF r.ok
          THEN /\ percentage' = r.val
               /\ cpc' = "return"
               /\ UNCHANGED result
          ELSE /\ result' = r
               /\ cpc' = "raised"
               /\ UNCHANGED percentage
    /\ UNCHANGED <<program, modVars, log, caller, part, total,
                   mark, zero_calls, calls, ref, pdVars, webVars>>

\* return percentage
CalcReturn ==
    /\ cpc = "return"
    /\ result' = Returns(percentage)
    /\ cpc' = "done"
    /\ UNCHANGED <<program, modVars, log, caller, part, total, percentage,
                   mark, zero_calls, calls, ref, pdVars, webVars>>

CalcStep == CalcGuard \/ CalcWarn \/ CalcReturnZero \/ CalcDivide \/ CalcReturn

\* The records the current (or last) call has emitted.
Emitted == SubSeq(log, mark + 1, Len(log))

\* ------------------------------------------------------------------------
\* One call of calculate_percentage on any operands
\* ------------------------------------------------------------------------
InitCalc ==
    /\ program = "script"
    /\ modname = "app" /\ loads = 1 /\ log_level = BasicConfigLevel
    /\ calc_impl = "real"
    /\ log = <<>>
    /\ part \in Parts /\ total \in Totals
    /\ cpc = "guard" /\ caller = "direct"
    /\ percentage = NoneValue /\ result = NoResult
    /\ mark = 0
    /\ zero_calls = IF IntIsZero(total) THEN 1 ELSE 0
    /\ calls = 1
    /\ ref = <<>>
    /\ ppc = [at |-> "idle", scen |-> "none"]
    /\ invoked_by = "none" /\ run_mark = 0 /\ runs = 0 /\ finished = 0
    /\ completion_rate = NoneValue /\ exc = "none"
    /\ testing = FALSE /\ responses = <<>>

NextCalc == CalcStep

SpecCalc == InitCalc /\ [][NextCalc]_vars

\* ------------------------------------------------------------------------
\* The module body: basicConfig, the two defs, the __main__ guard
\* ------------------------------------------------------------------------
\* The guard's condition always true.
IsMainAlways(name) == TRUE

\* __name__ == "__main__"
IsMain(name) == name = "__main__"

\* What the global calculate_percentage may be bound to: the function of
\* this module, or a replacement an importer installs that raises an
\* Exception, returns None, or raises a BaseException that is no Exception.
CalcImpls == {"real", "raises", "returns_none", "interrupts"}

\* The classes of the faults modelled that derive from Exception.
ExceptionSubclasses ==
    {"ZeroDivisionError", "OverflowError", "TypeError", "ValueError",
     "RuntimeError"}

\* A handler for ZeroDivisionError alone.
CatchesZeroDivisionOnly(x) == x = "ZeroDivisionError"

\* except Exception as e
Catches(x) == x \in ExceptionSubclasses

Pos(at, scen) == [at |-> at, scen |-> scen]
Idle == Pos("idle", "none")
Aborted == Pos("aborted", "none")
PdIdle == ppc \in {Idle, Aborted}
CalcIdle == cpc \in {"idle", "done", "raised"}

\* Entering process_data.
EnterProcessData(who) ==
    /\ ppc' = Pos("info", "A")
    /\ invoked_by' = who
    /\ run_mark' = Len(log)
    /\ runs' = runs + 1
    /\ completion_rate' = NoneValue
    /\ exc' = "none"
    /\ UNCHANGED finished

\* Running the module body under the name given: python app.py runs it as
\* "__main__", import app (or a reload) as "app".
LoadModule(name) ==
    /\ program = "script"
    /\ PdIdle /\ CalcIdle
    /\ loads < MaxLoads
    /\ IsMain(name) => runs < MaxRuns
    /\ loads' = loads + 1
    /\ modname' = name
    /\ log_level' = BasicConfigLevel
    /\ calc_impl' = "real"
    /\ IF IsMain(name)
       THEN EnterProcessData("main")
       ELSE UNCHANGED pdVars
    /\ UNCHANGED <<program, log, calcVars, ref, webVars>>

\* An importer rebinds app.calculate_percentage.
Patch(impl) ==
    /\ program = "script"
    /\ modname = "app"
    /\ PdIdle /\ CalcIdle
    /\ impl # calc_impl
    /\ calc_impl' = impl
    /\ UNCHANGED <<program, modname, loads, log_level, log, calcVars, ref,
                   pdVars, webVars>>

\* An importer calls app.process_data().
CallProcessData ==
    /\ program = "script"
    /\ modname = "app"
    /\ PdIdle /\ CalcIdle
    /\ runs < MaxRuns
    /\ EnterProcessData("caller")
    /\ UNCHANGED <<program, modVars, log, calcVars, ref, webVars>>

\* ------------------------------------------------------------------------
\* process_data(), statement by statement; scen is "A" (problematic) or "B"
\* (valid)
\* ------------------------------------------------------------------------
Successful(scen) ==
    IF scen = "A" THEN PyInt(successful_attempts_problematic)
    ELSE PyInt(successful_attempts_valid)

Attempts(scen) ==
    IF scen = "A" THEN PyInt(total_attempts_problematic)
    ELSE PyInt(total_attempts_valid)

\* The two announcements exchanged.
InfoMsgSwapped(scen) ==
    <<IF scen = "B" THEN "Processing data: " ELSE "\nProcessing valid data: ">>
    \o IntStr(Successful(IF scen = "B" THEN "A" ELSE "B"))
    \o <<" successful out of ">>
    \o IntStr(Attempts(IF scen = "B" THEN "A" ELSE "B")) \o <<" total.">>

InfoMsg(scen) ==
    <<IF scen = "A" THEN "Processing data: " ELSE "\nProcessing valid data: ">>
    \o IntStr(Successful(scen)) \o <<" successful out of ">>
    \o IntStr(Attempts(scen)) \o <<" total.">>

RateMsg(scen, x) ==
    <<IF scen = "A" THEN "Completion rate (problematic): "
      ELSE "Completion rate (valid): ">>
    \o FormatFixed2(x) \o <<"%">>

ErrorMsg(scen, x) ==
    <<IF scen = "A"
      THEN "An unexpected error occurred during problematic data processing: "
      ELSE "An unexpected error occurred during valid data processing: ",
      ExcText(x)>>

\* The records the current (or last) run of process_data has emitted, the
\* calculator's included.
RunLog == SubSeq(log, run_mark + 1, Len(log))

\* Where control goes after scenario scen.
AfterScenario(scen) ==
    IF scen = "A" THEN Pos("info", "B") ELSE Pos("return", "none")

\* logging.info(f"Processing data: ...")
PdInfo(scen) ==
    /\ ppc = Pos("info", scen)
    /\ log' = Emit(log, log_level, "INFO", "process_data", InfoMsg(scen))
    /\ ppc' = Pos("call", scen)
    /\ UNCHANGED <<program, modVars, calcVars, ref, invoked_by, run_mark, runs,
                   finished, completion_rate, exc, webVars>>

\* try: ... calculate_percentage(successful, total): the call is entered
PdCall(scen) ==
    /\ ppc = Pos("call", scen)
    /\ EnterCalc(Successful(scen), Attempts(scen), scen)
    /\ ppc' = Pos("wait", scen)
    /\ UNCHANGED <<program, modVars, log, ref, invoked_by, run_mark, runs, finished,
                   completion_rate, exc, webVars>>

\* completion_rate = <the value returned>
PdAssign(scen) ==
    /\ ppc = Pos("wait", scen) /\ cpc = "done"
    /\ completion_rate' = result.val
    /\ ppc' = Pos("rate", scen)
    /\ UNCHANGED <<program, modVars, log, calcVars, ref, invoked_by, run_mark, runs,
                   finished, exc, webVars>>

\* The call raised: the handler takes it if its class matches, else it
\* leaves process_data.
PdRaised(scen) ==
    /\ ppc = Pos("wait", scen) /\ cpc = "raised"
    /\ exc' = result.exc
    /\ ppc' = IF Catches(result.exc) THEN Pos("except", scen) ELSE Aborted
    /\ UNCHANGED <<program, modVars, log, calcVars, ref, invoked_by, run_mark, runs,
                   finished, completion_rate, webVars>>

\* logging.info(f"Completion rate (...): {completion_rate:.2f}%"); the
\* format specification raises TypeError on None.
PdRate(scen) ==
    /\ ppc = Pos("rate", scen)
    /\ IF completion_rate.kind = "None"
       THEN /\ exc' = "TypeError"
            /\ ppc' = IF Catches("TypeError") THEN Pos("except", scen)
                      ELSE Aborted
            /\ UNCHANGED log
       ELSE /\ log' = Emit(log, log_level, "INFO", "process_data",
                           RateMsg(scen, completion_rate))
            /\ ppc' = AfterScenario(scen)
            /\ UNCHANGED exc
    /\ UNCHANGED <<program, modVars, calcVars, ref, invoked_by, run_mark, runs,
                   finished, completion_rate, webVars>>

\* except Exception as e: logging.error(f"An unexpected error ...: {e}")
PdExcept(scen) ==
    /\ ppc = Pos("except", scen)
    /\ log' = Emit(log, log_level, "ERROR", "process_data",
                   ErrorMsg(scen, exc))
    /\ ppc' = AfterScenario(scen)
    /\ UNCHANGED <<program, modVars, calcVars, ref, invoked_by, run_mark, runs,
                   finished, completion_rate, exc, webVars>>

\* The end of the function body: process_data returns None.
PdReturn ==
    /\ ppc = Pos("return", "none")
    /\ finished' = finished + 1
    /\ ppc' = Idle
    /\ UNCHANGED <<program, modVars, log, calcVars, ref, invoked_by, run_mark, runs,
                   completion_rate, exc, webVars>>

PdStep ==
    \/ \E scen \in {"A", "B"} :
          PdInfo(scen) \/ PdCall(scen) \/ PdAssign(scen) \/ PdRaised(scen)
          \/ PdRate(scen) \/ PdExcept(scen)
    \/ PdReturn

\* The body of a replacement calculator.
StubStep ==
    /\ cpc = "stub"
    /\ CASE calc_impl = "raises" ->
              result' = Raises("RuntimeError") /\ cpc' = "raised"
         [] calc_impl = "interrupts" ->
              result' = Raises("KeyboardInterrupt") /\ cpc' = "raised"
         [] calc_impl = "returns_none" ->
              result' = Returns(NoneValue) /\ cpc' = "done"
    /\ UNCHANGED <<program, modVars, log, caller, part, total, percentage,
                   mark, zero_calls, calls, ref, pdVars, webVars>>

\* ------------------------------------------------------------------------
\* The web application test_app.py exercises (routes / and /bug); its source
\* is not in the repository, the views follow its tests and the
\* specification.
\* ------------------------------------------------------------------------
Greeting == "Sentry is working! Go to /bug to trigger an error"

\* home(): returns the greeting.
HomeView == [ok |-> TRUE, body |-> Greeting, exc |-> "none"]

\* A view that returns its body without dividing.
TriggerBugGuarded == [ok |-> TRUE, body |-> "no bug", exc |-> "none"]

\* trigger_bug(): 1 / 0, then the return that is never reached.
TriggerBugView ==
    The({ IF d.ok THEN [ok |-> TRUE, body |-> "no bug", exc |-> "none"]
          ELSE [ok |-> FALSE, body |-> "", exc |-> d.exc]
          : d \in {TrueDivide(PyInt(1), PyInt(0))} })

\* A server left broken by an earlier fault: it answers 500 from then on.
RespondBrokenAfterFault(history, route, out, propagate) ==
    IF \E i \in 1..Len(history) : history[i].fault # "none"
    THEN [route |-> route, fault |-> "none", propagated |-> FALSE,
          status |-> 500, body |-> "Internal Server Error"]
    ELSE [route |-> route, fault |-> out.exc, propagated |-> FALSE,
          status |-> IF out.ok THEN 200 ELSE 500, body |-> out.body]

\* What the client observes for a view's outcome: the body with status 200,
\* the exception itself when exceptions propagate (TESTING), else status 500.
Respond(history, route, out, propagate) ==
    IF out.ok
    THEN [route |-> route, fault |-> "none", propagated |-> FALSE,
          status |-> 200, body |-> out.body]
    ELSE IF propagate
    THEN [route |-> route, fault |-> out.exc, propagated |-> TRUE,
          status |-> 0, body |-> ""]
    ELSE [route |-> route, fault |-> out.exc, propagated |-> FALSE,
          status |-> 500, body |-> "Internal Server Error"]

\* app.config['TESTING'] / ['PROPAGATE_EXCEPTIONS'] set by the client.
WebConfigure ==
    /\ program = "web"
    /\ Len(responses) < MaxRequests
    /\ testing' = ~testing
    /\ UNCHANGED <<program, modVars, log, calcVars, ref, pdVars, responses>>

\* GET /
GetHome ==
    /\ program = "web"
    /\ Len(responses) < MaxRequests
    /\ responses' = Append(responses, Respond(responses, "/", HomeView, testing))
    /\ UNCHANGED <<program, modVars, log, calcVars, ref, pdVars, testing>>

\* GET /bug
GetBug ==
    /\ program = "web"
    /\ Len(responses) < MaxRequests
    /\ responses' = Append(responses,
                           Respond(responses, "/bug", TriggerBugView, testing))
    /\ UNCHANGED <<program, modVars, log, calcVars, ref, pdVars, testing>>

\* ------------------------------------------------------------------------
\* The programs as a whole
\* ------------------------------------------------------------------------
Init ==
    /\ program \in {"script", "web"}
    /\ modname = "none" /\ loads = 0 /\ log_level = "WARNING"
    /\ calc_impl = "real"
    /\ log = <<>>
    /\ part = PyInt(0) /\ total = PyInt(0)
    /\ cpc = "idle" /\ caller = "none"
    /\ percentage = NoneValue /\ result = NoResult
    /\ mark = 0 /\ zero_calls = 0 /\ calls = 0
    /\ ref = <<>>
    /\ ppc = Idle /\ invoked_by = "none" /\ run_mark = 0
    /\ runs = 0 /\ finished = 0
    /\ completion_rate = NoneValue /\ exc = "none"
    /\ testing = FALSE /\ responses = <<>>

\* A step of a run of process_data under way.
RunStep == PdStep \/ CalcStep \/ StubStep

Next ==
    \/ \E name \in {"__main__", "app"} : LoadModule(name)
    \/ \E impl \in CalcImpls : Patch(impl)
    \/ CallProcessData
    \/ RunStep
    \/ WebConfigure
    \/ GetHome
    \/ GetBug

Spec == Init /\ [][Next]_vars

\* The interpreter runs a started call to its end.
FairSpec == Spec /\ WF_vars(RunStep)

\* ------------------------------------------------------------------------
\* Calls of calculate_percentage made one after another by an importer
\* ------------------------------------------------------------------------
\* The call just finished, as an observer records it: arguments, outcome
\* and the content of the records it emitted.
Observed ==
    [part |-> part, total |-> total, result |-> result, emitted |-> Emitted]

\* calculate_percentage(p, t) called from outside the module; remember
\* says whether the observer keeps the call that has just finished.
DirectCall(p, t, remember) ==
    /\ program = "script"
    /\ modname = "app"
    /\ PdIdle /\ CalcIdle
    /\ calls < MaxCalls
    /\ remember => cpc \in {"done", "raised"}
    /\ ref' = IF remember THEN <<Observed>> ELSE ref
    /\ EnterCalc(p, t, "direct")
    /\ UNCHANGED <<program, modVars, log, pdVars, webVars>>

InitSeq ==
    /\ program = "script"
    /\ modname = "app" /\ loads = 1 /\ log_level = BasicConfigLevel
    /\ calc_impl = "real"
    /\ log = <<>>
    /\ part = PyInt(0) /\ total = PyInt(0)
    /\ cpc = "idle" /\ caller = "none"
    /\ percentage = NoneValue /\ result = NoResult
    /\ mark = 0 /\ zero_calls = 0 /\ calls = 0
    /\ ref = <<>>
    /\ ppc = Idle /\ invoked_by = "none" /\ run_mark = 0
    /\ runs = 0 /\ finished = 0
    /\ completion_rate = NoneValue /\ exc = "none"
    /\ testing = FALSE /\ responses = <<>>

NextSeq ==
    \/ \E p \in SeqParts, t \in SeqTotals, remember \in BOOLEAN :
          DirectCall(p, t, remember)
    \/ CalcStep

SpecSeq == InitSeq /\ [][NextSeq]_vars

\* ------------------------------------------------------------------------
\* Comparing a float with a rational P / T (P, T naturals below 2^31 and
\* 2^15, T > 0): |x| * T and P brought to a common power of two.
\* ------------------------------------------------------------------------
ScaledFloat(x, T) == BigShl(BigMulSmall(x.mant, T), Max(x.exp, 0))
ScaledRational(x, P) == BigShl(BigOfNat(P), Max(-x.exp, 0))

\* |x| = P / T
MagnitudeIs(x, P, T) ==
    x.kind = "finite" /\ ScaledFloat(x, T) = ScaledRational(x, P)

\* |x| > P / T
MagnitudeExceeds(x, P, T) ==
    x.kind = "inf"
    \/ ~BigLeq(ScaledFloat(x, T), ScaledRational(x, P))

\* | |x| - P / T | <= (P / T) * 2^-k
MagnitudeWithin(x, P, T, k) ==
    /\ x.kind = "finite"
    /\ \E F \in {ScaledFloat(x, T)}, R \in {ScaledRational(x, P)} :
          /\ BigLeq(BigShl(F, k), BigAdd(BigShl(R, k), R))
          /\ BigLeq(BigShl(R, k), BigAdd(BigShl(F, k), R))

\* The quotient part / total is zero or within the normal range of a float
\* (of the operands tried: those whose powers of ten cancel).
QuotientInRange == IntIsZero(part) \/ part.e = total.e

OppositeSigns == (part.m < 0 /\ total.m > 0) \/ (part.m > 0 /\ total.m < 0)

\* The call has returned from the non-zero branch.
ReturnedNonZero == cpc = "done" /\ ~IntIsZero(total)

\* s occurs in msg as a run of consecutive fragments.
Contains(msg, s) ==
    \E i \in 0..(Len(msg) - Len(s)) : SubSeq(msg, i + 1, i + Len(s)) = s

\* ------------------------------------------------------------------------
\* Properties of a single call (SpecCalc)
\* ------------------------------------------------------------------------

C2_ZeroTotal ==
    IntIsZero(total) =>
        /\ cpc # "raised"
        /\ Len(Emitted) <= 1
        /\ cpc = "done" =>
              /\ result = Returns(FloatZero(FALSE))
              /\ Len(Emitted) = 1
              /\ Emitted[1].level = "WARNING"
              /\ Contains(Emitted[1].msg, IntStr(part))

\* C3: no call on numeric operands ends in an exception.
C3_NeverRaises == cpc # "raised"

\* ------------------------------------------------------------------------
\* Properties of process_data and of the module body (Spec, FairSpec)
\* ------------------------------------------------------------------------
LastRecord(lg) == lg[Len(lg)]

\* The step appends exactly one record to the log.
AppendsOne == Len(log') = Len(log) + 1 /\ SubSeq(log', 1, Len(log)) = log

\* A fault that is an Exception, met in scenario scen, enters that
\* scenario's handler; the handler emits one ERROR record carrying the
\* fault's description and control passes on to what follows the scenario.
FaultHandled(scen) ==
    /\ (ppc = Pos("wait", scen) /\ cpc = "raised"
        /\ result.exc \in ExceptionSubclasses)
          => (ppc' = Pos("except", scen) /\ exc' = result.exc)
    /\ (ppc = Pos("rate", scen) /\ completion_rate.kind = "None")
          => (ppc' = Pos("except", scen) /\ exc' = "TypeError")
    /\ ppc = Pos("except", scen)
          => /\ AppendsOne
             /\ LastRecord(log').level = "ERROR"
             /\ Contains(LastRecord(log').msg, <<ExcText(exc)>>)
             /\ ExcText(exc) # ""
             /\ ppc' = AfterScenario(scen)

\* C4: a run of process_data executes both scenarios: a fault of class
\* Exception in scenario A (from the calculator call or from logging the
\* rate) is caught and logged in one ERROR record with its description, the
\* run is not aborted and scenario B's calculator call still happens; a
\* fault in scenario B is caught and logged alike, and process_data returns.
C4_FaultsContained ==
    /\ [](ppc = Aborted => exc \notin ExceptionSubclasses)
    /\ [][FaultHandled("A") /\ FaultHandled("B")]_vars
    /\ [](ppc = Pos("return", "none") =>
            (caller = "B" /\ part = Successful("B") /\ total = Attempts("B")))
    /\ (ppc = Pos("except", "A")) ~> (ppc = Pos("wait", "B"))
    /\ (ppc = Pos("except", "B")) ~> (ppc = Idle)

\* A run whose two calculator calls both raised has returned, with an ERROR
\* record for each scenario.
C4_Witness ==
    /\ ppc = Idle /\ finished = 1 /\ calc_impl = "raises"
    /\ Len(log) = 4
    /\ log[2].level = "ERROR" /\ log[4].level = "ERROR"
    /\ caller = "B"

\* C5: in a run of process_data with the module's own calculator, scenario
\* A (50, 0) obtains 0.0 and logs "0.00%", scenario B (75, 100) obtains 75.0
\* and logs "75.00%"; the rate logged is the value returned, formatted to
\* two decimals.
C5_ScenarioRates ==
    calc_impl = "real" =>
        /\ ppc.at = "rate" => completion_rate = result.val
        /\ ppc = Pos("rate", "A") =>
              (part = PyInt(50) /\ total = PyInt(0)
               /\ completion_rate = FloatZero(FALSE))
        /\ ppc = Pos("info", "B") =>
              LastRecord(log) =
                 [level |-> "INFO", func |-> "process_data",
                  msg |-> <<"Completion rate (problematic): ",
                            "0", ".", "0", "0", "%">>]
        /\ ppc = Pos("rate", "B") =>
              (part = PyInt(75) /\ total = PyInt(100)
               /\ completion_rate = FloatOfInt(75))
        /\ ppc = Pos("return", "none") =>
              LastRecord(log) =
                 [level |-> "INFO", func |-> "process_data",
                  msg |-> <<"Completion rate (valid): ",
                            "7", "5", ".", "0", "0", "%">>]

\* A run with the module's own calculator has logged both rates and returned.
C5_Witness ==
    /\ ppc = Idle /\ finished = 1 /\ calc_impl = "real" /\ Len(log) = 5
    /\ log[3].msg = RateMsg("A", FloatZero(FALSE))
    /\ log[5].msg = RateMsg("B", FloatOfInt(75))

\* C6: every GET / is answered with status 200 and the greeting, whatever
\* requests came before, faulting GET /bug requests included.
C6_HomeAlwaysGreets ==
    \A i \in 1..Len(responses) :
        responses[i].route = "/" =>
            /\ responses[i].status = 200
            /\ responses[i].body = Greeting
            /\ responses[i].fault = "none"
            /\ ~responses[i].propagated

\* GET / answered 200 after two GET /bug requests that faulted, one of
\* them answered 500.
C6_Witness ==
    /\ Len(responses) = 4
    /\ responses[1].route = "/" /\ responses[2].route = "/bug"
    /\ responses[3].route = "/bug" /\ responses[3].status = 500
    /\ responses[4].route = "/" /\ responses[4].status = 200
    /\ responses[4] = responses[1]

\* The response the step adds is one to GET /bug.
AnswersBug ==
    /\ Len(responses') = Len(responses) + 1
    /\ LastRecord(responses').route = "/bug"

\* C7: every GET /bug divides 1 by 0 and faults with ZeroDivisionError
\* before any body is returned: the exception reaches the client's caller
\* when exceptions propagate (testing), the client gets status 500 when
\* they do not; so for every request of a sequence.
C7_BugAlwaysFaults ==
    /\ [](\A i \in 1..Len(responses) :
            responses[i].route = "/bug" =>
                /\ responses[i].fault = "ZeroDivisionError"
                /\ responses[i].status # 200
                /\ responses[i].body # "no bug"
                /\ responses[i].propagated \/ responses[i].status = 500)
    /\ [][AnswersBug =>
            /\ testing => LastRecord(responses').propagated
            /\ ~testing => (LastRecord(responses').status = 500
                            /\ ~LastRecord(responses').propagated)]_vars

\* Three GET /bug requests in a row: the first two answered 500, the third
\* propagating its ZeroDivisionError.
C7_Witness ==
    /\ Len(responses) = 3
    /\ \A i \in 1..3 : responses[i].route = "/bug"
    /\ responses[1].status = 500 /\ responses[2].status = 500
    /\ responses[3].propagated /\ responses[3].fault = "ZeroDivisionError"

\* C8: running the module body under a name other than "__main__" (import,
\* reload) never invokes process_data: no run starts, no call is made, no
\* record is emitted by the load; a run started by a load is one of a load
\* as "__main__".
C8_ImportDoesNotRun ==
    [][loads' # loads =>
         /\ modname' # "__main__" =>
               (runs' = runs /\ ppc' = ppc /\ calls' = calls /\ log' = log)
         /\ runs' # runs => (modname' = "__main__" /\ invoked_by' = "main")]_vars

\* The module has been imported and reloaded, and nothing has run.
C8_Witness ==
    /\ loads = 2 /\ modname = "app"
    /\ runs = 0 /\ calls = 0 /\ log = <<>> /\ ppc = Idle

\* ------------------------------------------------------------------------
\* Properties of calls made one after another (SpecSeq)
\* ------------------------------------------------------------------------

\* C9: two calls of calculate_percentage with the same (part, total),
\* whatever calls came between them, end alike: the same value returned or
\* exception raised, and records of the same level and message.
C9_SameCallSameOutcome ==
    (/\ ref # <<>>
     /\ cpc \in {"done", "raised"}
     /\ ref[1].part = part /\ ref[1].total = total)
        => (result = ref[1].result /\ Emitted = ref[1].emitted)

\* A third call repeats the first, a zero-total call, after a call that
\* emitted nothing; it has returned.
C9_Witness ==
    /\ calls = 3 /\ cpc = "done" /\ ref # <<>>
    /\ ref[1].part = part /\ ref[1].total = total
    /\ IntIsZero(total) /\ Len(ref[1].emitted) = 1
    /\ Len(log) = 2 /\ mark = 1

\* C10: a call with total != 0 emits no record, and over any sequence of
\* calls the records the calculator has emitted are as many as the calls
\* made with total == 0.
C10_RecordsCountZeroCalls ==
    /\ (cpc # "idle" /\ ~IntIsZero(total)) => Emitted = <<>>
    /\ CalcIdle => Len(log) = zero_calls
    /\ \A i \in 1..Len(log) :
          log[i].func = "calculate_percentage" /\ log[i].level = "WARNING"

\* ------------------------------------------------------------------------
\* The guard before the division (SpecCalc)
\* ------------------------------------------------------------------------

\* C11: inside calculate_percentage the guard total == 0 is evaluated
\* before the division: control reaches the division only from the guard
\* and only with total != 0, and no call ends in ZeroDivisionError.
C11_GuardBeforeDivision ==
    /\ [](cpc \in {"divide", "return"} => ~IntIsZero(total))
    /\ [](cpc = "raised" => result.exc # "ZeroDivisionError")
    /\ [][cpc' = "divide" => (cpc = "guard" /\ ~IntIsZero(total))]_vars
    /\ [][cpc = "guard" =>
            (cpc' = IF IntIsZero(total) THEN "warn" ELSE "divide")]_vars

\* A call with a negative total stands at the division, the guard passed.
C11_Witness ==
    /\ cpc = "divide" /\ total = PyInt(-1) /\ part = PyInt(5)
    /\ result = NoResult

\* ------------------------------------------------------------------------
\* Order within a run of process_data (Spec, FairSpec)
\* ------------------------------------------------------------------------
\* The opening text of the records process_data emits for each scenario.
ScenarioTexts(scen) ==
    IF scen = "A"
    THEN {"Processing data: ", "Completion rate (problematic): ",
          "An unexpected error occurred during problematic data processing: "}
    ELSE {"\nProcessing valid data: ", "Completion rate (valid): ",
          "An unexpected error occurred during valid data processing: "}

\* The record r belongs to scenario scen: emitted by process_data with one
\* of the scenario's texts, or the calculator's warning about the scenario's
\* part (50 for A, 75 for B).
BelongsTo(r, scen) ==
    \/ r.func = "process_data" /\ r.msg[1] \in ScenarioTexts(scen)
    \/ /\ r.func = "calculate_percentage"
       /\ SubSeq(r.msg, 2, Len(r.msg)) =
             (IF scen = "A" THEN <<"5", "0">> ELSE <<"7", "5">>)

\* The step enters a calculator call.
EntersCall == cpc \notin {"guard", "stub"} /\ cpc' \in {"guard", "stub"}

\* C12: in every run of process_data scenario A precedes scenario B without
\* interleaving: every record of the run belongs to one scenario, no record
\* of B is emitted while scenario A is under way, every record of A comes
\* before the first record of B, and the call for (75, 100) is entered only
\* after the call for (50, 0) has ended.
C12_ScenarioAThenB ==
    /\ [](\A i \in 1..Len(RunLog) :
            BelongsTo(RunLog[i], "A") # BelongsTo(RunLog[i], "B"))
    /\ [](ppc.scen = "A" =>
            \A i \in 1..Len(RunLog) : BelongsTo(RunLog[i], "A"))
    /\ [](\A i, j \in 1..Len(RunLog) :
            (BelongsTo(RunLog[i], "B") /\ BelongsTo(RunLog[j], "A")) => j < i)
    /\ [][(EntersCall /\ part' = PyInt(75) /\ total' = PyInt(100)) =>
            /\ ppc = Pos("call", "B")
            /\ cpc \in {"done", "raised"}
            /\ caller = "A" /\ part = PyInt(50) /\ total = PyInt(0)]_vars
    /\ [][(EntersCall /\ part' = PyInt(50)) =>
            (ppc = Pos("call", "A") /\ RunLog # <<>>
             /\ \A i \in 1..Len(RunLog) : BelongsTo(RunLog[i], "A"))]_vars

\* In a second run the call for (75, 100) is under way after the three
\* records of scenario A and the announcement of scenario B.
C12_Witness ==
    /\ runs = 2 /\ run_mark = 5 /\ calc_impl = "real"
    /\ ppc = Pos("wait", "B") /\ cpc = "divide" /\ caller = "B"
    /\ Len(RunLog) = 4
    /\ \A i \in 1..3 : BelongsTo(RunLog[i], "A")
    /\ BelongsTo(RunLog[4], "B")

\* A run of process_data with the module's own calculator is under way (its
\* last statement included).
RealRun == calc_impl = "real" /\ ~PdIdle

\* C13: with the module's own calculator no run of process_data enters an
\* except block (neither call raises, neither rate fails to format), and
\* the run emits no record at error level.
C13_HandlersUnreachable ==
    /\ [](RealRun =>
            /\ ppc.at # "except"
            /\ exc = "none"
            /\ ppc.at = "wait" => cpc # "raised"
            /\ \A i \in 1..Len(RunLog) : RunLog[i].level # "ERROR")
    /\ [][(calc_impl = "real" /\ ppc' # ppc) =>
            (ppc'.at # "except" /\ ppc' # Aborted)]_vars

\* A run with the module's own calculator stands at its last statement,
\* no handler entered and no error record among its five.
C13_Witness ==
    /\ RealRun /\ ppc = Pos("return", "none")
    /\ exc = "none" /\ Len(RunLog) = 5
    /\ \A i \in 1..5 : RunLog[i].level \in {"INFO", "WARNING"}

\* The levels of the five records of a run, in order.
FiveLevels == <<"INFO", "WARNING", "INFO", "INFO", "INFO">>

\* The records lg are, in order, the first Len(lg) of: A's announcement,
\* the calculator's warning mentioning part 50, A's rate, B's announcement,
\* B's rate.
FirstOfFive(lg) ==
    /\ Len(lg) <= 5
    /\ \A i \in 1..Len(lg) : lg[i].level = FiveLevels[i]
    /\ Len(lg) >= 1 =>
          (lg[1].func = "process_data" /\ lg[1].msg[1] = "Processing data: ")
    /\ Len(lg) >= 2 =>
          /\ lg[2].func = "calculate_percentage"
          /\ Contains(lg[2].msg, <<"5", "0">>)
    /\ Len(lg) >= 3 =>
          /\ lg[3].func = "process_data"
          /\ lg[3].msg[1] = "Completion rate (problematic): "
    /\ Len(lg) >= 4 =>
          /\ lg[4].func = "process_data"
          /\ lg[4].msg[1] = "\nProcessing valid data: "
    /\ Len(lg) >= 5 =>
          /\ lg[5].func = "process_data"
          /\ lg[5].msg[1] = "Completion rate (valid): "

\* C14: every run of process_data (with the module's own calculator)
\* terminates having emitted exactly five records, in this order: INFO (A's
\* announcement), WARNING (the calculator's, mentioning part 50), INFO (A's
\* rate), INFO (B's announcement), INFO (B's rate); the warning is emitted
\* once, between A's announcement and A's rate.
C14_FiveRecordsInOrder ==
    /\ [](RealRun => FirstOfFive(RunLog))
    /\ [](RealRun /\ ppc = Pos("return", "none") => Len(RunLog) = 5)
    /\ [](RealRun /\ ppc = Pos("rate", "A") => Len(RunLog) = 2)
    /\ [][(RealRun /\ ppc = Pos("return", "none")) =>
            (ppc' = Idle /\ finished' = finished + 1 /\ log' = log)]_vars
    /\ (RealRun /\ ppc = Pos("info", "A")) ~>
            (ppc = Idle /\ Len(RunLog) = 5 /\ FirstOfFive(RunLog))

\* A second run with the module's own calculator has returned; its five
\* records follow the five of the first.
C14_Witness ==
    /\ ppc = Idle /\ finished = 2 /\ calc_impl = "real"
    /\ Len(log) = 10 /\ run_mark = 5
    /\ FirstOfFive(RunLog) /\ Len(RunLog) = 5
    /\ RunLog[2].msg = WarningMsg(PyInt(50))

====
